---- MODULE Spec2Model ----
(***************************************************************************)
(* The macOS native launchers of RedHoleEngine and RedHoleGame             *)
(* (Launcher/macos_launcher.c in each product).  A launcher finds its own  *)
(* real path, extends DYLD_LIBRARY_PATH, points the two Vulkan driver      *)
(* manifest variables at a MoltenVK manifest and replaces itself with      *)
(* `dotnet <dir>/<name>.dll <args...>`.                                    *)
(*                                                                         *)
(* C strings are sequences of one-character strings, so that lengths are   *)
(* byte lengths and the truncation done by snprintf and strncpy is         *)
(* modelled at the buffer sizes of the source.  A pointer is <<>> (NULL)   *)
(* or <<s>> (a pointer to the string s).  malloc and setenv are taken to   *)
(* succeed.                                                                *)
(***************************************************************************)
EXTENDS Integers, Sequences, FiniteSets, TLC

\* #define MAX_PATH 4096
MAX_PATH == 4096

\* The launcher is started with at most MaxArgs arguments after argv[0].
MaxArgs == 2

(***************************************************************************)
(* String literals of the source.                                          *)
(***************************************************************************)
NativeSuffix == <<"/","r","u","n","t","i","m","e","s","/","o","s","x","/","n","a","t","i","v","e">>
IcdSuffix == <<"/","r","u","n","t","i","m","e","s","/","o","s","x","/","n","a","t","i","v","e","/","M","o","l","t","e","n","V","K","_","i","c","d",".","j","s","o","n">>
HomebrewLib == <<"/","o","p","t","/","h","o","m","e","b","r","e","w","/","l","i","b">>
HomebrewAppend == <<":","/","o","p","t","/","h","o","m","e","b","r","e","w","/","l","i","b">>
HomebrewVulkan == <<"/","o","p","t","/","h","o","m","e","b","r","e","w","/","l","i","b","/","l","i","b","v","u","l","k","a","n",".","d","y","l","i","b">>
brew_icd == <<"/","o","p","t","/","h","o","m","e","b","r","e","w","/","s","h","a","r","e","/","v","u","l","k","a","n","/","i","c","d",".","d","/","M","o","l","t","e","n","V","K","_","i","c","d",".","j","s","o","n">>
local_icd == <<"/","u","s","r","/","l","o","c","a","l","/","s","h","a","r","e","/","v","u","l","k","a","n","/","i","c","d",".","d","/","M","o","l","t","e","n","V","K","_","i","c","d",".","j","s","o","n">>
DllExt == <<".","d","l","l">>
Dotnet == <<"d","o","t","n","e","t">>
Colon == <<":">>
Slash == <<"/">>

ErrExecutablePath == "Error: Could not get executable path\n"
ErrResolvePath == "Error: Could not resolve path\n"
ErrExecute == "Error: Could not execute dotnet\n"

EnvNames == {"DYLD_LIBRARY_PATH", "VK_ICD_FILENAMES", "VK_DRIVER_FILES"}

(***************************************************************************)
(* The C library calls the launchers make.                                 *)
(***************************************************************************)
NULL == <<>>
Ptr(s) == <<s>>

Min(a, b) == IF a < b THEN a ELSE b

\* snprintf(buf, size, fmt, ...): at most size - 1 bytes of the formatted
\* text are stored, followed by the terminator.
Snprintf(size, text) == SubSeq(text, 1, Min(Len(text), size - 1))

\* strncpy(dst, src, n); dst[n] = '\0': the first n bytes of src.
Strncpy(src, n) == SubSeq(src, 1, Min(Len(src), n))

\* strstr(haystack, needle) != NULL: needle occurs in haystack as a substring.
Strstr(haystack, needle) ==
    \E i \in 1..(Len(haystack) - Len(needle) + 1) :
        \A j \in 1..Len(needle) : haystack[i + j - 1] = needle[j]

\* The index of the last '/' of an absolute path without a trailing slash
\* (what realpath returns).
LastSlash(path) ==
    CHOOSE i \in 1..Len(path) :
        path[i] = "/" /\ \A j \in (i + 1)..Len(path) : path[j] # "/"

\* dirname and basename of macOS: each copies its result into storage of its
\* own and leaves the argument untouched.
Dirname(path) ==
    IF LastSlash(path) = 1 THEN Slash ELSE SubSeq(path, 1, LastSlash(path) - 1)

Basename(path) == SubSeq(path, LastSlash(path) + 1, Len(path))

Getenv(e, name) == e[name]

\* setenv(name, value, 1)
Setenv(e, name, value) == [e EXCEPT ![name] = Ptr(value)]

\* The environment after a sequence of setenv calls <<name, value>>.
RECURSIVE ApplyWrites(_, _)
ApplyWrites(e, writes) ==
    IF writes = <<>> THEN e
    ELSE ApplyWrites(Setenv(e, writes[1][1], writes[1][2]), Tail(writes))

\* execvp reads its argument vector up to the first NULL.
FirstNull(vec) ==
    CHOOSE i \in 1..Len(vec) : vec[i] = NULL /\ \A j \in 1..(i - 1) : vec[j] # NULL

ExecArgs(vec) == [i \in 1..(FirstNull(vec) - 1) |-> vec[i][1]]

(***************************************************************************)
(* The inputs of a run: where the executable is installed, how it was      *)
(* started, the environment and the files present.                         *)
(***************************************************************************)
\* Directory and base name of the executable file on disk.
Installs ==
    { [dir |-> <<"/","A">>, name |-> <<"F","o","o">>],
      [dir |-> <<"/","B","/","C">>, name |-> <<"G">>] }

InstallPath(inst) == inst.dir \o Slash \o inst.name

SymlinkPath == <<"/","l">>

\* What _NSGetExecutablePath can report: the path the launcher was started
\* by, which is the file itself, a symbolic link to it, or a path relative
\* to the working directory (here the install directory).
InvocationPaths(inst) ==
    { InstallPath(inst), SymlinkPath, <<".">> \o Slash \o inst.name }

\* realpath(path, NULL) for the paths above.
Realpath(inst, path) ==
    IF path = SymlinkPath THEN InstallPath(inst)
    ELSE IF path[1] = "." THEN inst.dir \o SubSeq(path, 2, Len(path))
    ELSE path

\* argv: the path the launcher was started by, and n arguments.
Argv(path, n) == <<path>> \o [i \in 1..n |-> IF i % 2 = 1 THEN <<"a">> ELSE <<"b","c">>]

Argvs(path) == { Argv(path, n) : n \in 0..MaxArgs }

\* A long search path "/x:/vvv...v" of n bytes.
LongValue(n) == [i \in 1..n |-> IF i \in {1, 4} THEN "/" ELSE IF i = 2 THEN "x" ELSE IF i = 3 THEN ":" ELSE "v"]

\* How many bytes shorter than 2 * MAX_PATH the long values are.  Composed
\* with the install directories above, such a value fits the buffer exactly,
\* fits it but leaves less room than the Homebrew directory needs, or does
\* not fit.
LongMargins == {26, 31}

DyldValues ==
    { NULL, Ptr(<<>>), Ptr(<<"/","x",":","/","y">>),
      Ptr(<<"/","o","p","t","/","h","o","m","e","b","r","e","w","/","l","i","b","e","x","e","c">>) }
    \cup { Ptr(LongValue(2 * MAX_PATH - m)) : m \in LongMargins }

OldIcd == <<"/","o","l","d",".","j","s","o","n">>

\* The environments a run starts in: each value of DYLD_LIBRARY_PATH, and
\* with the empty one a VK_ICD_FILENAMES left over from elsewhere.
Environments ==
    { [n \in EnvNames |-> IF n = "DYLD_LIBRARY_PATH" THEN v
                          ELSE IF n = "VK_ICD_FILENAMES" /\ v = Ptr(<<>>) THEN Ptr(OldIcd)
                          ELSE NULL] : v \in DyldValues }

\* The files the launcher probes.
ProbedFiles(inst) == { HomebrewVulkan, inst.dir \o IcdSuffix, brew_icd, local_icd }

VARIABLES
    prog,         \* which launcher runs: "Engine" or "Game"
    install,      \* where the executable is on disk
    invoked,      \* the path the launcher was started by
    argv,         \* main's argument vector
    env0,         \* the environment at start
    fs,           \* the probed files that exist
    world,        \* how _NSGetExecutablePath, realpath and execvp ended
    pc,           \* position in main
    exe_path, real_path, dir, dll_path, icd_path, dyld_path, native_path, new_argv,
    env,          \* the process environment
    envlog,       \* the setenv calls made, in order
    stderr,       \* the lines written to standard error
    execd,        \* the execvp calls made
    status,       \* <<>> while running, <<s>> after main returned s
    run,          \* 1, or 2 in the second run of the comparison
    saved         \* the comparison: what the first run did

vars == <<prog, install, invoked, argv, env0, fs, world, pc, exe_path, real_path,
          dir, dll_path, icd_path, dyld_path, native_path, new_argv, env, envlog, stderr,
          execd, status, run, saved>>

inputs == <<install, invoked, argv, env0, fs>>
locals == <<exe_path, real_path, dir, dll_path, icd_path, dyld_path, native_path, new_argv>>
outputs == <<env, envlog, stderr, execd, status>>
harness == <<prog, run, saved>>

Outcomes(known, all) == IF known = "?" THEN all ELSE {known}

(***************************************************************************)
(* RedHoleEngine/Launcher/macos_launcher.c : main                                                            *)
(***************************************************************************)
\* static int file_exists(const char *path): access(path, F_OK) == 0
Engine_file_exists(path) == path \in fs

\* A dirname that cuts its argument in place, as other C libraries do:
\* basename then sees the directory.
Mut_DllPath(real) ==
    LET d == Dirname(real)
        exe_name == Strncpy(Basename(d), MAX_PATH - 1)
        dll_name == Snprintf(MAX_PATH, exe_name \o DllExt)
    IN  Snprintf(MAX_PATH, d \o Slash \o dll_name)

\* dll_path from real_path: dirname, basename, "%s.dll", "%s/%s".
Engine_DllPath(real) ==
    LET d == Dirname(real)
        exe_name == Strncpy(Basename(real), MAX_PATH - 1)
        dll_name == Snprintf(MAX_PATH, exe_name \o DllExt)
    IN  Snprintf(MAX_PATH, d \o Slash \o dll_name)

Engine_IcdPath(d) == Snprintf(MAX_PATH, d \o IcdSuffix)

Engine_DyldPath(d) == Snprintf(MAX_PATH, d)

Engine_NativePath(d) == Snprintf(MAX_PATH, d \o NativeSuffix)

\* The terminator written one slot early: new_argv[argc] = NULL.
Mut_NewArgv(av, dll) ==
    [k \in 1..(Len(av) + 2) |->
        IF k = 1 THEN Ptr(Dotnet)
        ELSE IF k = 2 THEN Ptr(dll)
        ELSE IF k >= Len(av) + 1 THEN NULL
        ELSE Ptr(av[k - 1])]

\* new_argv as main fills it: "dotnet", dll_path, argv[1..argc-1], NULL.
\* Index k here is index k - 1 of the C arrays.
Engine_NewArgv(av, dll) ==
    [k \in 1..(Len(av) + 2) |->
        IF k = 1 THEN Ptr(Dotnet)
        ELSE IF k = 2 THEN Ptr(dll)
        ELSE IF k = Len(av) + 2 THEN NULL
        ELSE Ptr(av[k - 1])]

\* The existing value put first instead of last.
Mut_NewDyld(dyldp, nativep, existing_dyld) ==
    IF existing_dyld # NULL /\ Len(existing_dyld[1]) > 0
    THEN Snprintf(MAX_PATH * 2, existing_dyld[1] \o Colon \o dyldp \o Colon \o nativep)
    ELSE Snprintf(MAX_PATH * 2, dyldp \o Colon \o nativep)

\* The value main composes for DYLD_LIBRARY_PATH from the one it finds.
Engine_NewDyld(dyldp, nativep, existing_dyld) ==
    IF existing_dyld # NULL /\ Len(existing_dyld[1]) > 0
    THEN Snprintf(MAX_PATH * 2, dyldp \o Colon \o nativep \o Colon \o existing_dyld[1])
    ELSE Snprintf(MAX_PATH * 2, dyldp \o Colon \o nativep)

\* The setenv calls of the Homebrew step in environment e.
Engine_HomebrewWrites(e) ==
    IF Engine_file_exists(HomebrewVulkan)
    THEN LET dyld == Getenv(e, "DYLD_LIBRARY_PATH")
         IN  IF dyld # NULL /\ ~Strstr(dyld[1], HomebrewLib)
             THEN << <<"DYLD_LIBRARY_PATH", Snprintf(MAX_PATH * 2, dyld[1] \o HomebrewAppend)>> >>
             ELSE <<>>
    ELSE <<>>

\* The two system manifests probed in the other order.
Mut_PickIcd(icd) ==
    IF ~Engine_file_exists(icd)
    THEN IF Engine_file_exists(local_icd) THEN Strncpy(local_icd, MAX_PATH - 1)
         ELSE IF Engine_file_exists(brew_icd) THEN Strncpy(brew_icd, MAX_PATH - 1)
         ELSE icd
    ELSE icd

\* icd_path after the probes of the bundled and the two system manifests.
Engine_PickIcd(icd) ==
    IF ~Engine_file_exists(icd)
    THEN IF Engine_file_exists(brew_icd) THEN Strncpy(brew_icd, MAX_PATH - 1)
         ELSE IF Engine_file_exists(local_icd) THEN Strncpy(local_icd, MAX_PATH - 1)
         ELSE icd
    ELSE icd

\* _NSGetExecutablePath(exe_path, &size), and the error return.
Engine_GetExecutablePath ==
    /\ prog = "Engine" /\ pc = "start"
    /\ \E r \in Outcomes(world.nsget, {"ok", "failed"}) :
        /\ world' = [world EXCEPT !.nsget = r]
        /\ IF r = "ok"
           THEN /\ exe_path' = invoked
                /\ pc' = "realpath"
                /\ UNCHANGED <<stderr, status>>
           ELSE /\ stderr' = Append(stderr, ErrExecutablePath)
                /\ status' = <<1>>
                /\ pc' = "exited"
                /\ UNCHANGED exe_path
    /\ UNCHANGED <<inputs, harness, real_path, dir, dll_path, icd_path, dyld_path,
                   native_path, new_argv, env, envlog, execd>>

\* realpath(exe_path, NULL), and the error return.
Engine_ResolvePath ==
    /\ prog = "Engine" /\ pc = "realpath"
    /\ \E r \in Outcomes(world.realpath, {"ok", "failed"}) :
        /\ world' = [world EXCEPT !.realpath = r]
        /\ IF r = "ok"
           THEN /\ real_path' = Ptr(Realpath(install, exe_path))
                /\ pc' = "paths"
                /\ UNCHANGED <<stderr, status>>
           ELSE /\ stderr' = Append(stderr, ErrResolvePath)
                /\ status' = <<1>>
                /\ pc' = "exited"
                /\ UNCHANGED real_path
    /\ UNCHANGED <<inputs, harness, exe_path, dir, dll_path, icd_path, dyld_path,
                   native_path, new_argv, env, envlog, execd>>

Engine_BuildPaths ==
    /\ prog = "Engine" /\ pc = "paths"
    /\ dir' = Dirname(real_path[1])
    /\ dll_path' = Engine_DllPath(real_path[1])
    /\ icd_path' = Engine_IcdPath(dir')
    /\ dyld_path' = Engine_DyldPath(dir')
    /\ native_path' = Engine_NativePath(dir')
    /\ pc' = "dyld"
    /\ UNCHANGED <<inputs, harness, world, exe_path, real_path, new_argv, outputs>>

Engine_SetDyld ==
    /\ prog = "Engine" /\ pc = "dyld"
    /\ LET new_dyld == Engine_NewDyld(dyld_path, native_path, Getenv(env, "DYLD_LIBRARY_PATH"))
       IN  /\ env' = Setenv(env, "DYLD_LIBRARY_PATH", new_dyld)
           /\ envlog' = Append(envlog, <<"DYLD_LIBRARY_PATH", new_dyld>>)
    /\ pc' = "brew"
    /\ UNCHANGED <<inputs, harness, world, locals, stderr, execd, status>>

Engine_AddHomebrew ==
    /\ prog = "Engine" /\ pc = "brew"
    /\ env' = ApplyWrites(env, Engine_HomebrewWrites(env))
    /\ envlog' = envlog \o Engine_HomebrewWrites(env)
    /\ pc' = "icd"
    /\ UNCHANGED <<inputs, harness, world, locals, stderr, execd, status>>

Engine_SelectIcd ==
    /\ prog = "Engine" /\ pc = "icd"
    /\ icd_path' = Engine_PickIcd(icd_path)
    /\ pc' = "vkenv"
    /\ UNCHANGED <<inputs, harness, world, exe_path, real_path, dir, dll_path, dyld_path,
                   native_path, new_argv, outputs>>

\* VK_DRIVER_FILES forgotten.
Mut_VulkanWrites(icd) == << <<"VK_ICD_FILENAMES", icd>> >>

\* The setenv calls for the two driver manifest variables.
Engine_VulkanWrites(icd) == << <<"VK_ICD_FILENAMES", icd>>, <<"VK_DRIVER_FILES", icd>> >>

Engine_SetVulkanEnv ==
    /\ prog = "Engine" /\ pc = "vkenv"
    /\ env' = ApplyWrites(env, Engine_VulkanWrites(icd_path))
    /\ envlog' = envlog \o Engine_VulkanWrites(icd_path)
    /\ pc' = "argv"
    /\ UNCHANGED <<inputs, harness, world, locals, stderr, execd, status>>

Engine_BuildArgv ==
    /\ prog = "Engine" /\ pc = "argv"
    /\ new_argv' = Engine_NewArgv(argv, dll_path)
    /\ pc' = "exec"
    /\ UNCHANGED <<inputs, harness, world, exe_path, real_path, dir, dll_path, icd_path,
                   dyld_path, native_path, outputs>>

\* execvp("dotnet", new_argv): the image is replaced, or the call returns.
Engine_Exec ==
    /\ prog = "Engine" /\ pc = "exec"
    /\ execd' = Append(execd, [file |-> Dotnet, args |-> ExecArgs(new_argv), env |-> env])
    /\ \E r \in Outcomes(world.exec, {"replaced", "returned"}) :
        /\ world' = [world EXCEPT !.exec = r]
        /\ pc' = IF r = "replaced" THEN "replaced" ELSE "exec_returned"
    /\ UNCHANGED <<inputs, harness, locals, env, envlog, stderr, status>>

\* A failed execvp reported as success.
Mut_ExecFailed_Status ==
    /\ prog = "Engine" /\ pc = "exec_returned"
    /\ stderr' = Append(stderr, ErrExecute)
    /\ status' = <<0>>
    /\ pc' = "exited"
    /\ UNCHANGED <<inputs, harness, world, locals, env, envlog, execd>>

\* A failed execvp tried again.
Mut_ExecFailed_Retry ==
    /\ prog = "Engine" /\ pc = "exec_returned"
    /\ stderr' = Append(stderr, ErrExecute)
    /\ pc' = "exec"
    /\ UNCHANGED <<inputs, harness, world, locals, env, envlog, execd, status>>

\* execvp returned: the error line, and return 1.
Engine_ExecFailed ==
    /\ prog = "Engine" /\ pc = "exec_returned"
    /\ stderr' = Append(stderr, ErrExecute)
    /\ status' = <<1>>
    /\ pc' = "exited"
    /\ UNCHANGED <<inputs, harness, world, locals, env, envlog, execd>>

Engine_main ==
    \/ Engine_GetExecutablePath
    \/ Engine_ResolvePath
    \/ Engine_BuildPaths
    \/ Engine_SetDyld
    \/ Engine_AddHomebrew
    \/ Engine_SelectIcd
    \/ Engine_SetVulkanEnv
    \/ Engine_BuildArgv
    \/ Engine_Exec
    \/ Engine_ExecFailed

(***************************************************************************)
(* RedHoleGame/Launcher/macos_launcher.c   : main                                                            *)
(***************************************************************************)
\* static int file_exists(const char *path): access(path, F_OK) == 0
Game_file_exists(path) == path \in fs

\* dll_path from real_path: dirname, basename, "%s.dll", "%s/%s".
Game_DllPath(real) ==
    LET d == Dirname(real)
        exe_name == Strncpy(Basename(real), MAX_PATH - 1)
        dll_name == Snprintf(MAX_PATH, exe_name \o DllExt)
    IN  Snprintf(MAX_PATH, d \o Slash \o dll_name)

Game_IcdPath(d) == Snprintf(MAX_PATH, d \o IcdSuffix)

Game_DyldPath(d) == Snprintf(MAX_PATH, d)

Game_NativePath(d) == Snprintf(MAX_PATH, d \o NativeSuffix)

\* new_argv as main fills it: "dotnet", dll_path, argv[1..argc-1], NULL.
\* Index k here is index k - 1 of the C arrays.
Game_NewArgv(av, dll) ==
    [k \in 1..(Len(av) + 2) |->
        IF k = 1 THEN Ptr(Dotnet)
        ELSE IF k = 2 THEN Ptr(dll)
        ELSE IF k = Len(av) + 2 THEN NULL
        ELSE Ptr(av[k - 1])]

\* The Game launcher without the bundled native directory.
Mut_Game_NewDyld(dyldp, nativep, existing_dyld) ==
    IF existing_dyld # NULL /\ Len(existing_dyld[1]) > 0
    THEN Snprintf(MAX_PATH * 2, dyldp \o Colon \o existing_dyld[1])
    ELSE Snprintf(MAX_PATH * 2, dyldp)

\* The value main composes for DYLD_LIBRARY_PATH from the one it finds.
Game_NewDyld(dyldp, nativep, existing_dyld) ==
    IF existing_dyld # NULL /\ Len(existing_dyld[1]) > 0
    THEN Snprintf(MAX_PATH * 2, dyldp \o Colon \o nativep \o Colon \o existing_dyld[1])
    ELSE Snprintf(MAX_PATH * 2, dyldp \o Colon \o nativep)

\* The setenv calls of the Homebrew step in environment e.
Game_HomebrewWrites(e) ==
    IF Game_file_exists(HomebrewVulkan)
    THEN LET dyld == Getenv(e, "DYLD_LIBRARY_PATH")
         IN  IF dyld # NULL /\ ~Strstr(dyld[1], HomebrewLib)
             THEN << <<"DYLD_LIBRARY_PATH", Snprintf(MAX_PATH * 2, dyld[1] \o HomebrewAppend)>> >>
             ELSE <<>>
    ELSE <<>>

\* icd_path after the probes of the bundled and the two system manifests.
Game_PickIcd(icd) ==
    IF ~Game_file_exists(icd)
    THEN IF Game_file_exists(brew_icd) THEN Strncpy(brew_icd, MAX_PATH - 1)
         ELSE IF Game_file_exists(local_icd) THEN Strncpy(local_icd, MAX_PATH - 1)
         ELSE icd
    ELSE icd

\* _NSGetExecutablePath(exe_path, &size), and the error return.
Game_GetExecutablePath ==
    /\ prog = "Game" /\ pc = "start"
    /\ \E r \in Outcomes(world.nsget, {"ok", "failed"}) :
        /\ world' = [world EXCEPT !.nsget = r]
        /\ IF r = "ok"
           THEN /\ exe_path' = invoked
                /\ pc' = "realpath"
                /\ UNCHANGED <<stderr, status>>
           ELSE /\ stderr' = Append(stderr, ErrExecutablePath)
                /\ status' = <<1>>
                /\ pc' = "exited"
                /\ UNCHANGED exe_path
    /\ UNCHANGED <<inputs, harness, real_path, dir, dll_path, icd_path, dyld_path,
                   native_path, new_argv, env, envlog, execd>>

\* realpath(exe_path, NULL), and the error return.
Game_ResolvePath ==
    /\ prog = "Game" /\ pc = "realpath"
    /\ \E r \in Outcomes(world.realpath, {"ok", "failed"}) :
        /\ world' = [world EXCEPT !.realpath = r]
        /\ IF r = "ok"
           THEN /\ real_path' = Ptr(Realpath(install, exe_path))
                /\ pc' = "paths"
                /\ UNCHANGED <<stderr, status>>
           ELSE /\ stderr' = Append(stderr, ErrResolvePath)
                /\ status' = <<1>>
                /\ pc' = "exited"
                /\ UNCHANGED real_path
    /\ UNCHANGED <<inputs, harness, exe_path, dir, dll_path, icd_path, dyld_path,
                   native_path, new_argv, env, envlog, execd>>

Game_BuildPaths ==
    /\ prog = "Game" /\ pc = "paths"
    /\ dir' = Dirname(real_path[1])
    /\ dll_path' = Game_DllPath(real_path[1])
    /\ icd_path' = Game_IcdPath(dir')
    /\ dyld_path' = Game_DyldPath(dir')
    /\ native_path' = Game_NativePath(dir')
    /\ pc' = "dyld"
    /\ UNCHANGED <<inputs, harness, world, exe_path, real_path, new_argv, outputs>>

Game_SetDyld ==
    /\ prog = "Game" /\ pc = "dyld"
    /\ LET new_dyld == Game_NewDyld(dyld_path, native_path, Getenv(env, "DYLD_LIBRARY_PATH"))
       IN  /\ env' = Setenv(env, "DYLD_LIBRARY_PATH", new_dyld)
           /\ envlog' = Append(envlog, <<"DYLD_LIBRARY_PATH", new_dyld>>)
    /\ pc' = "brew"
    /\ UNCHANGED <<inputs, harness, world, locals, stderr, execd, status>>

Game_AddHomebrew ==
    /\ prog = "Game" /\ pc = "brew"
    /\ env' = ApplyWrites(env, Game_HomebrewWrites(env))
    /\ envlog' = envlog \o Game_HomebrewWrites(env)
    /\ pc' = "icd"
    /\ UNCHANGED <<inputs, harness, world, locals, stderr, execd, status>>

Game_SelectIcd ==
    /\ prog = "Game" /\ pc = "icd"
    /\ icd_path' = Game_PickIcd(icd_path)
    /\ pc' = "vkenv"
    /\ UNCHANGED <<inputs, harness, world, exe_path, real_path, dir, dll_path, dyld_path,
                   native_path, new_argv, outputs>>

\* The setenv calls for the two driver manifest variables.
Game_VulkanWrites(icd) == << <<"VK_ICD_FILENAMES", icd>>, <<"VK_DRIVER_FILES", icd>> >>

Game_SetVulkanEnv ==
    /\ prog = "Game" /\ pc = "vkenv"
    /\ env' = ApplyWrites(env, Game_VulkanWrites(icd_path))
    /\ envlog' = envlog \o Game_VulkanWrites(icd_path)
    /\ pc' = "argv"
    /\ UNCHANGED <<inputs, harness, world, locals, stderr, execd, status>>

Game_BuildArgv ==
    /\ prog = "Game" /\ pc = "argv"
    /\ new_argv' = Game_NewArgv(argv, dll_path)
    /\ pc' = "exec"
    /\ UNCHANGED <<inputs, harness, world, exe_path, real_path, dir, dll_path, icd_path,
                   dyld_path, native_path, outputs>>

\* execvp("dotnet", new_argv): the image is replaced, or the call returns.
Game_Exec ==
    /\ prog = "Game" /\ pc = "exec"
    /\ execd' = Append(execd, [file |-> Dotnet, args |-> ExecArgs(new_argv), env |-> env])
    /\ \E r \in Outcomes(world.exec, {"replaced", "returned"}) :
        /\ world' = [world EXCEPT !.exec = r]
        /\ pc' = IF r = "replaced" THEN "replaced" ELSE "exec_returned"
    /\ UNCHANGED <<inputs, harness, locals, env, envlog, stderr, status>>

\* execvp returned: the error line, and return 1.
Game_ExecFailed ==
    /\ prog = "Game" /\ pc = "exec_returned"
    /\ stderr' = Append(stderr, ErrExecute)
    /\ status' = <<1>>
    /\ pc' = "exited"
    /\ UNCHANGED <<inputs, harness, world, locals, env, envlog, execd>>

Game_main ==
    \/ Game_GetExecutablePath
    \/ Game_ResolvePath
    \/ Game_BuildPaths
    \/ Game_SetDyld
    \/ Game_AddHomebrew
    \/ Game_SelectIcd
    \/ Game_SetVulkanEnv
    \/ Game_BuildArgv
    \/ Game_Exec
    \/ Game_ExecFailed

(***************************************************************************)
(* Specifications.                                                         *)
(***************************************************************************)
Started(p) ==
    /\ prog = p
    /\ install \in Installs
    /\ invoked \in InvocationPaths(install)
    /\ argv \in Argvs(invoked)
    /\ env0 \in Environments
    /\ fs \in SUBSET ProbedFiles(install)
    /\ world = [nsget |-> "?", realpath |-> "?", exec |-> "?"]
    /\ pc = "start"
    /\ exe_path = <<>> /\ real_path = NULL
    /\ dir = <<>> /\ dll_path = <<>> /\ icd_path = <<>>
    /\ dyld_path = <<>> /\ native_path = <<>> /\ new_argv = <<>>
    /\ env = env0
    /\ envlog = <<>> /\ stderr = <<>> /\ execd = <<>> /\ status = <<>>
    /\ run = 1
    /\ saved = <<>>

\* One run of either launcher.
Init == \E p \in {"Engine", "Game"} : Started(p)

Next == Engine_main \/ Game_main

Spec == Init /\ [][Next]_vars

\* What a run did, as seen from outside the process.
Observation ==
    [envlog |-> envlog, stderr |-> stderr, execd |-> execd, status |-> status, pc |-> pc]

Finished == pc \in {"exited", "replaced"}

\* The comparison of the two launchers: after the Engine launcher finished,
\* the Game launcher is started from the same executable location, argument
\* vector, environment and files, on a platform that answers as before.
StartGame ==
    /\ run = 1 /\ prog = "Engine" /\ Finished
    /\ saved' = <<Observation>>
    /\ run' = 2
    /\ prog' = "Game"
    /\ pc' = "start"
    /\ exe_path' = <<>> /\ real_path' = NULL
    /\ dir' = <<>> /\ dll_path' = <<>> /\ icd_path' = <<>>
    /\ dyld_path' = <<>> /\ native_path' = <<>> /\ new_argv' = <<>>
    /\ env' = env0
    /\ envlog' = <<>> /\ stderr' = <<>> /\ execd' = <<>> /\ status' = <<>>
    /\ UNCHANGED <<inputs, world>>

InitBoth == Started("Engine")

NextBoth == Engine_main \/ Game_main \/ StartGame

SpecBoth == InitBoth /\ [][NextBoth]_vars

(***************************************************************************)
(* The properties of the launchers.                                        *)
(***************************************************************************)
D == install.dir
N == install.name
V == env0["DYLD_LIBRARY_PATH"]

\* The executable was resolved to its directory: main is past the path
\* computations.
PathsBuilt == pc \notin {"start", "realpath", "paths"} /\ real_path # NULL

\* DYLD_LIBRARY_PATH as section 8 of the specification composes it.
Composed ==
    IF V = NULL \/ V = Ptr(<<>>)
    THEN D \o Colon \o D \o NativeSuffix
    ELSE D \o Colon \o D \o NativeSuffix \o Colon \o V[1]

\* The colon-separated directories of a search path.
Entries(s) ==
    LET marks == {0, Len(s) + 1} \cup {i \in 1..Len(s) : s[i] = ":"}
        after(a) == CHOOSE b \in marks : b > a /\ \A c \in marks : c > a => c >= b
    IN  { SubSeq(s, a + 1, after(a) - 1) : a \in marks \ {Len(s) + 1} }

\* What fits a buffer of 2 * MAX_PATH bytes.
Cut(s) == SubSeq(s, 1, Min(Len(s), 2 * MAX_PATH - 1))

\* The Homebrew step on value x: the directory is appended when the library
\* file exists and x does not contain the directory's name.
WithHomebrew(x) ==
    IF HomebrewVulkan \in fs /\ ~Strstr(x, HomebrewLib) THEN Cut(x \o HomebrewAppend) ELSE x

\* C1 as stated: the replacement process finds DYLD_LIBRARY_PATH to be
\* exactly D:D/runtimes/osx/native, followed by :V when V was set and not
\* empty, whatever the files present.
C1_Original ==
    execd # <<>> => execd[1].env["DYLD_LIBRARY_PATH"] = Ptr(Composed)

\* C1 amended: the replacement process finds DYLD_LIBRARY_PATH to be the
\* first 2 * MAX_PATH - 1 bytes of D:D/runtimes/osx/native[:V], followed by
\* :/opt/homebrew/lib (cut to the same size) when
\* /opt/homebrew/lib/libvulkan.dylib exists and that value does not contain
\* /opt/homebrew/lib.
C1_Amended ==
    execd # <<>> => execd[1].env["DYLD_LIBRARY_PATH"] = Ptr(WithHomebrew(Cut(Composed)))

C1_Witness ==
    /\ pc = "replaced"
    /\ V = Ptr(<<"/","x",":","/","y">>)
    /\ HomebrewVulkan \in fs
    /\ env["DYLD_LIBRARY_PATH"] = Ptr(Composed \o HomebrewAppend)

Bundled == D \o IcdSuffix

ExpectedIcd ==
    IF Bundled \in fs THEN Bundled
    ELSE IF brew_icd \in fs THEN brew_icd
    ELSE IF local_icd \in fs THEN local_icd
    ELSE Bundled

VulkanSet == pc \in {"argv", "exec"} \/ execd # <<>>

\* C2: once set, VK_ICD_FILENAMES and VK_DRIVER_FILES hold the same path:
\* the bundled manifest if it exists, else the Homebrew one if it exists,
\* else the /usr/local one if it exists, else the bundled path.
C2_IcdPriority ==
    VulkanSet =>
        /\ env["VK_ICD_FILENAMES"] = Ptr(ExpectedIcd)
        /\ env["VK_DRIVER_FILES"] = Ptr(ExpectedIcd)

C2_Witness ==
    /\ pc = "replaced"
    /\ fs \cap {Bundled, brew_icd, local_icd} = {local_icd}
    /\ env["VK_ICD_FILENAMES"] = Ptr(local_icd)
    /\ env["VK_DRIVER_FILES"] = Ptr(local_icd)

\* C3: execvp is given "dotnet", the module path and then argv[1..argc-1]
\* in order, ended by a single NULL: forwarded arguments + 2 entries.
C3_ArgumentList ==
    execd # <<>> =>
        /\ execd[1].file = Dotnet
        /\ execd[1].args = <<Dotnet, dll_path>> \o Tail(argv)
        /\ Len(execd[1].args) = (Len(argv) - 1) + 2
        /\ Len(new_argv) = Len(execd[1].args) + 1
        /\ \A k \in 1..Len(new_argv) : (new_argv[k] = NULL) = (k = Len(new_argv))

C3_Witness ==
    /\ pc = "replaced"
    /\ execd[1].args = <<Dotnet, dll_path, <<"a">>, <<"b","c">> >>

HomebrewWritesNow ==
    IF prog = "Engine" THEN Engine_HomebrewWrites(env) ELSE Game_HomebrewWrites(env)

\* C4 as stated: right after the Homebrew step, DYLD_LIBRARY_PATH is the
\* just-set value with :/opt/homebrew/lib appended if libvulkan.dylib exists
\* there and /opt/homebrew/lib is not one of the directories of the just-set
\* value, and the just-set value otherwise; the step done again changes
\* nothing.
C4_Claim ==
    pc = "icd" =>
        LET set == envlog[1][2]
            now == env["DYLD_LIBRARY_PATH"][1]
        IN  /\ IF HomebrewVulkan \in fs /\ HomebrewLib \notin Entries(set)
               THEN now = set \o HomebrewAppend
               ELSE now = set
            /\ ApplyWrites(env, HomebrewWritesNow) = env

\* C5: main returns only 1, and only for one of three reasons, each with its
\* one line on standard error; nothing is written to standard error otherwise,
\* and no other state stops the launcher.
C5_FatalOutcomes ==
    /\ status \in {<<>>, <<1>>}
    /\ (pc = "exited") = (status = <<1>>)
    /\ pc # "exited" => stderr = <<>>
    /\ pc = "exited" =>
        \/ world.nsget = "failed" /\ stderr = <<ErrExecutablePath>> /\ execd = <<>>
        \/ world.nsget = "ok" /\ world.realpath = "failed"
             /\ stderr = <<ErrResolvePath>> /\ execd = <<>>
        \/ world.nsget = "ok" /\ world.realpath = "ok" /\ world.exec = "returned"
             /\ stderr = <<ErrExecute>> /\ Len(execd) = 1
    /\ pc \notin {"exited", "replaced"} => ENABLED (Engine_main \/ Game_main)
    /\ (world.nsget = "ok" /\ world.realpath = "ok" /\ pc \in {"exited", "replaced"}) =>
            Len(execd) = 1

C5_Witness ==
    /\ pc = "exited"
    /\ world.exec = "returned"
    /\ fs = {}
    /\ stderr = <<ErrExecute>>

Rank(p) ==
    CASE p = "start" -> 0
      [] p = "realpath" -> 1
      [] p = "paths" -> 2
      [] p = "dyld" -> 3
      [] p = "brew" -> 4
      [] p = "icd" -> 5
      [] p = "vkenv" -> 6
      [] p = "argv" -> 7
      [] p = "exec" -> 8
      [] p = "exec_returned" -> 9
      [] p = "replaced" -> 9
      [] p = "exited" -> 10

LogNames == { envlog[i][1] : i \in 1..Len(envlog) }

\* C6: main only moves forward, one step at a time or to its exit; the
\* Homebrew step finds DYLD_LIBRARY_PATH already written; execvp is called
\* at most once, after all three variables were set, with the environment
\* as the setenv calls left it; after a successful execvp nothing happens.
C6_Order ==
    /\ [](/\ Len(execd) <= 1
          /\ pc = "brew" =>
                /\ Len(envlog) = 1
                /\ envlog[1][1] = "DYLD_LIBRARY_PATH"
                /\ env["DYLD_LIBRARY_PATH"] = Ptr(envlog[1][2])
          /\ execd # <<>> =>
                /\ pc \in {"replaced", "exec_returned", "exited"}
                /\ LogNames = EnvNames
                /\ execd[1].env = ApplyWrites(env0, envlog)
                /\ execd[1].env = env)
    /\ [][/\ pc # "replaced"
          /\ \/ Rank(pc') = Rank(pc) + 1
             \/ pc' = "exited" /\ pc \in {"start", "realpath"}]_vars

C6_Witness ==
    /\ pc = "replaced"
    /\ Len(envlog) = 4
    /\ Len(execd) = 1

\* C7: the module path is D/N.dll for the directory D and base name N of
\* the executable file, however the launcher was started.
C7_ModulePath ==
    /\ PathsBuilt => dll_path = D \o Slash \o N \o DllExt
    /\ execd # <<>> => execd[1].args[2] = D \o Slash \o N \o DllExt

C7_Witness ==
    /\ pc = "replaced"
    /\ invoked = SymlinkPath
    /\ execd[1].args[2] = D \o Slash \o N \o DllExt

\* C8: started alike, the Game launcher makes the same setenv calls with
\* the same values, the same execvp call, writes the same line to standard
\* error and ends the same way as the Engine launcher.
C8_SameBehaviour ==
    (run = 2 /\ Finished) => saved = <<Observation>>

C8_Witness ==
    /\ run = 2 /\ prog = "Game"
    /\ pc = "replaced"
    /\ Len(envlog) = 4
    /\ saved = <<Observation>>

\* C9 as stated: every directory of the prior DYLD_LIBRARY_PATH is a
\* directory of the final one, and so is /opt/homebrew/lib when the
\* Homebrew step wrote the variable.
C9_Claim ==
    (execd # <<>> /\ V # NULL /\ V # Ptr(<<>>)) =>
        LET final == execd[1].env["DYLD_LIBRARY_PATH"][1]
        IN  /\ Entries(V[1]) \subseteq Entries(final)
            /\ Len(envlog) = 4 => HomebrewLib \in Entries(final)

\* C10: when the executable path cannot be found or resolved, no variable
\* is written and execvp is not called; whenever execvp is called, the three
\* variables are set and not empty in the environment it passes on.
C10_Frame ==
    /\ (world.nsget = "failed" \/ world.realpath = "failed") =>
            /\ env = env0
            /\ envlog = <<>>
            /\ execd = <<>>
    /\ pc \in {"start", "realpath"} => env = env0 /\ envlog = <<>> /\ execd = <<>>
    /\ execd # <<>> =>
            \A n \in EnvNames :
                /\ execd[1].env[n] # NULL
                /\ Len(execd[1].env[n][1]) > 0

C10_Witness ==
    /\ pc = "exited"
    /\ world.realpath = "failed"
    /\ env0["VK_ICD_FILENAMES"] # NULL
    /\ env = env0

====
